---- MODULE Spec2Model ----
(***************************************************************************)
(* Model of simulador_leilao.py: the feasibility calculator for real-estate *)
(* auction investments.                                                     *)
(*                                                                         *)
(* Numbers.  The script computes with Python floats (IEEE-754 binary64,     *)
(* round-to-nearest-even).  The model keeps the same arithmetic in a        *)
(* smaller binary format: a value is an integer count of units of           *)
(* 2^-FracBits and is representable when it has at most Prec significant    *)
(* bits.  Every float operation of the source is the exact result rounded   *)
(* to the nearest representable value, ties to even.  A decimal rate        *)
(* written in the source (0.04, p/100, ...) is taken at its decimal value:  *)
(* the product by the rate is rounded once.                                 *)
(***************************************************************************)
EXTENDS Integers, Sequences, FiniteSets, TLC

(* ------------------------------ bounds --------------------------------- *)
Prec == 8
FracBits == 8
MaxMeses == 3
MaxPrazo == 3
MaxValor == 150
MaxFinanciado == 30
PrazoMedio == 6
PrazoLongo == 60
GiroLongo == 6

(* -------------------------- float arithmetic --------------------------- *)
One == 2^FracBits

Abs(x) == IF x < 0 THEN -x ELSE x
Sgn(x) == IF x < 0 THEN -1 ELSE 1
Max0(x) == IF 0 > x THEN 0 ELSE x

\* the spacing s * 2^k of the binade that holds a: the least one with
\* a < s * 2^k * 2^Prec
Binade(a, s) ==
    LET q == a \div (s * 2^Prec)
        k == CHOOSE j \in 0..30 : q < 2^j /\ (j = 0 \/ q >= 2^(j - 1))
    IN  s * 2^k

\* a/s rounded to the nearest integer, ties to the even one
NearestEven(a, s) ==
    LET q == a \div s
        r == a % s
    IN  IF 2 * r > s \/ (2 * r = s /\ q % 2 = 1) THEN q + 1 ELSE q

\* the representable value nearest to the rational num/den (in units)
Rnd(num, den) ==
    LET a == Abs(num)
        s == Binade(a, den)
    IN  Sgn(num) * NearestEven(a, s) * (s \div den)

IsFloat(x) == Rnd(x, 1) = x

\* one unit in the last place of the binade of x
Ulp(x) == Binade(Abs(x), 1)

FAdd(a, b) == Rnd(a + b, 1)
FSub(a, b) == Rnd(a - b, 1)
FMul(a, b) == Rnd(a * b, One)
FDiv(a, b) == Rnd(a * One, b)
\* float * int (the int converts exactly)
FMulInt(a, n) == Rnd(a * n, 1)
\* float * decimal rate p/100
FMulPct(a, p) == Rnd(a * p, 100)
\* the float of the decimal p/100
FOfPct(p) == Rnd(p * One, 100)

\* Powers are carried as <<m, e>>, the number m * 2^e, with at most
\* Prec + Guard significant bits in m (each product is truncated to that
\* width) and rounded to the format once, as libm's pow delivers them.
\* The working width is 14 bits, whose squares stay below 2^31.
Guard == 14 - Prec

\* m * 2^e cut to the working width: the low bits of m are dropped
Truncar(m, e) ==
    LET q == m \div 2^(Prec + Guard)
        k == CHOOSE j \in 0..30 : q < 2^j /\ (j = 0 \/ q >= 2^(j - 1))
    IN  <<m \div 2^k, e + k>>

\* x = m * 2^e with m odd (or zero)
Mantissa(m, e) ==
    IF m = 0 THEN <<0, e>>
    ELSE LET k == CHOOSE j \in 0..29 : m % 2^j = 0 /\ m % 2^(j + 1) # 0
         IN  <<m \div 2^k, e + k>>

\* (x / 2^k)^n for x > 0, by repeated squaring
RECURSIVE PowGuard(_, _, _)
PowGuard(x, k, n) ==
    IF n = 0 THEN <<1, 0>>
    ELSE LET h  == PowGuard(x, k, n \div 2)
             sq == Truncar(h[1] * h[1], 2 * h[2])
             xm == Mantissa(x, 0)
         IN  IF n % 2 = 0 THEN sq
             ELSE Truncar(sq[1] * xm[1], sq[2] + xm[2] - k)

\* m * 2^e <= x, for x < 2^31
LeqScaled(me, x) ==
    LET m == me[1]
        e == me[2]
    IN  IF e >= 0
        THEN e <= 30 /\ m <= x \div 2^e
        ELSE IF -e > 30 THEN x > 0 \/ m = 0
        ELSE LET d == 2^(-e)
             IN  m \div d < x \/ (m \div d = x /\ m % d = 0)

\* float ** int: the power, in units, rounded to the format
FPow(x, n) ==
    LET p == PowGuard(x, FracBits, n)
        e == p[2] + FracBits
    IN  IF e >= 0 THEN Rnd(p[1] * 2^e, 1) ELSE Rnd(p[1], 2^(-e))

\* y^12 <= x, for y counted in half-units and x in units
Pow12LE(y2, x) ==
    LET p == PowGuard(y2, FracBits + 1, 12)
    IN  LeqScaled(<<p[1], p[2] + FracBits>>, x)

\* the largest grid point y of [lo, hi] with y^12 <= x (lo^12 <= x is given)
RECURSIVE Root12Floor(_, _, _, _)
Root12Floor(x, lo, hi, step) ==
    IF hi - lo <= step
    THEN IF Pow12LE(2 * hi, x) THEN hi ELSE lo
    ELSE LET mid == lo + (((hi - lo) \div step) \div 2) * step
         IN  IF Pow12LE(2 * mid, x)
             THEN Root12Floor(x, mid, hi, step)
             ELSE Root12Floor(x, lo, mid, step)

\* float ** (1/12) for 1 <= x < 2^12: the twelfth root, in [1, 2), rounded
\* to the format
FRoot12(x) ==
    LET step == Ulp(One)
        y    == Root12Floor(x, One, 2 * One, step)
    IN  IF Pow12LE(2 * y + step, x) THEN y + step ELSE y

(* --------------------------- program constants ------------------------- *)
\* the rates of lines 109-115, as percentages: 0.04 is 4
TAXA_ITBI == 4
TAXA_ESCRITURA == 3
TAXA_FUNDOS == 1
TAXA_REGISTRO == 3
TAXA_COMISSAO_VENDA == 5
TAXA_IR_GCAP == 15
TAXA_JUROS_ANUAL_DEFAULT == 12

(* ----------------------------- pure functions -------------------------- *)
MsgNone == ""
MsgLance == "O valor de arremate deve ser maior que zero."
MsgMeses == "O tempo de giro deve ser maior que zero."
MsgEntrada == "O percentual de entrada deve estar entre 0% e 100%."
MsgRevenda == "Atenção: O valor de revenda é menor que o valor de arremate. Isso pode indicar prejuízo."

\* variant: a bid of zero is let through
validar_inputs_lance_zero(lance, revenda, meses, entrada_pct) ==
    IF lance < 0 THEN <<FALSE, MsgLance>>
    ELSE IF meses <= 0 THEN <<FALSE, MsgMeses>>
    ELSE IF ~(0 <= entrada_pct /\ entrada_pct <= 100) THEN <<FALSE, MsgEntrada>>
    ELSE IF revenda < lance THEN <<TRUE, MsgRevenda>>
    ELSE <<TRUE, MsgNone>>

\* validar_inputs(lance, revenda, meses, entrada_pct): (bool, str)
validar_inputs(lance, revenda, meses, entrada_pct) ==
    IF lance <= 0 THEN <<FALSE, MsgLance>>
    ELSE IF meses <= 0 THEN <<FALSE, MsgMeses>>
    ELSE IF ~(0 <= entrada_pct /\ entrada_pct <= 100) THEN <<FALSE, MsgEntrada>>
    ELSE IF revenda < lance THEN <<TRUE, MsgRevenda>>
    ELSE <<TRUE, MsgNone>>

\* variant: total_taxas leaves the fundos fee out
calcular_custos_aquisicao_sem_fundos(lance, taxa_leiloeiro, reforma_extras) ==
    LET itbi        == FMulPct(lance, TAXA_ITBI)
        escritura   == FMulPct(lance, TAXA_ESCRITURA)
        fundos      == FMulPct(lance, TAXA_FUNDOS)
        registro    == FMulPct(lance, TAXA_REGISTRO)
        total_taxas == FAdd(FAdd(itbi, escritura), registro)
        comissao_leiloeiro == FMulPct(lance, taxa_leiloeiro)
        custo_total_ativo  ==
            FAdd(FAdd(FAdd(lance, total_taxas), comissao_leiloeiro), reforma_extras)
    IN  [itbi |-> itbi, escritura |-> escritura, fundos |-> fundos,
         registro |-> registro, total_taxas |-> total_taxas,
         comissao_leiloeiro |-> comissao_leiloeiro,
         custo_total_ativo |-> custo_total_ativo]

\* calcular_custos_aquisicao(lance, taxa_leiloeiro_pct, reforma_extras);
\* the commission rate arrives as the selectbox percentage / 100
calcular_custos_aquisicao(lance, taxa_leiloeiro, reforma_extras) ==
    LET itbi        == FMulPct(lance, TAXA_ITBI)
        escritura   == FMulPct(lance, TAXA_ESCRITURA)
        fundos      == FMulPct(lance, TAXA_FUNDOS)
        registro    == FMulPct(lance, TAXA_REGISTRO)
        total_taxas == FAdd(FAdd(FAdd(itbi, escritura), fundos), registro)
        comissao_leiloeiro == FMulPct(lance, taxa_leiloeiro)
        custo_total_ativo  ==
            FAdd(FAdd(FAdd(lance, total_taxas), comissao_leiloeiro), reforma_extras)
    IN  [itbi |-> itbi, escritura |-> escritura, fundos |-> fundos,
         registro |-> registro, total_taxas |-> total_taxas,
         comissao_leiloeiro |-> comissao_leiloeiro,
         custo_total_ativo |-> custo_total_ativo]

\* variant: the financed amount as lance * (1 - entrada)
calcular_estrutura_capital_complemento(lance, entrada, total_taxas, comissao_leiloeiro, reforma_extras) ==
    LET valor_entrada    == FMulPct(lance, entrada)
        valor_financiado == FMulPct(lance, 100 - entrada)
        capital_proprio_investido ==
            FAdd(FAdd(FAdd(valor_entrada, total_taxas), comissao_leiloeiro), reforma_extras)
    IN  [valor_entrada |-> valor_entrada, valor_financiado |-> valor_financiado,
         capital_proprio_investido |-> capital_proprio_investido]

\* calcular_estrutura_capital(lance, entrada_pct, total_taxas, comissao, extras);
\* entrada is the down-payment percentage p of the fraction p/100
\* variant: the fees are left out of the own capital
calcular_estrutura_capital_sem_taxas(lance, entrada, total_taxas, comissao_leiloeiro, reforma_extras) ==
    LET valor_entrada    == FMulPct(lance, entrada)
        valor_financiado == FSub(lance, valor_entrada)
        capital_proprio_investido ==
            FAdd(FAdd(valor_entrada, comissao_leiloeiro), reforma_extras)
    IN  [valor_entrada |-> valor_entrada, valor_financiado |-> valor_financiado,
         capital_proprio_investido |-> capital_proprio_investido]

calcular_estrutura_capital(lance, entrada, total_taxas, comissao_leiloeiro, reforma_extras) ==
    LET valor_entrada    == FMulPct(lance, entrada)
        valor_financiado == FSub(lance, valor_entrada)
        capital_proprio_investido ==
            FAdd(FAdd(FAdd(valor_entrada, total_taxas), comissao_leiloeiro), reforma_extras)
    IN  [valor_entrada |-> valor_entrada, valor_financiado |-> valor_financiado,
         capital_proprio_investido |-> capital_proprio_investido]

\* npf.pmt(rate, nper, pv) of numpy_financial, fv = 0 and when = 'end':
\*   temp = (1 + rate)**nper
\*   fact = nper if rate == 0 else (1 + rate*0)*(temp - 1)/rate
\*   return -(0 + pv*temp)/fact
npf_fact(rate, nper, temp) ==
    IF rate = 0 THEN nper * One ELSE FDiv(FSub(temp, One), rate)

npf_pmt(rate, nper, pv) ==
    LET temp == FPow(FAdd(One, rate), nper)
    IN  -FDiv(FMul(pv, temp), npf_fact(rate, nper, temp))

\* npf.fv(rate, nper, pmt, pv) of numpy_financial, when = 'end':
\*   return -(pv*temp + pmt*fact)
npf_fv(rate, nper, pmt, pv) ==
    LET temp == FPow(FAdd(One, rate), nper)
    IN  -FAdd(FMul(pv, temp), FMul(pmt, npf_fact(rate, nper, temp)))

\* taxa_mensal = (1 + taxa_juros_anual)**(1/12) - 1
taxa_mensal_de(taxa_juros_anual) == FSub(FRoot12(FAdd(One, taxa_juros_anual)), One)

ZeroFinanc ==
    [prestacao_mensal |-> 0, total_prestacoes_pagas |-> 0, saldo_devedor |-> 0,
     juros_pagos_no_giro |-> 0, amortizacao_no_giro |-> 0]

\* calcular_custos_financiamento(valor_financiado, taxa_juros_anual,
\*     prazo_total_meses, tempo_giro_meses, considerar_juros)
calcular_custos_financiamento(valor_financiado, taxa_juros_anual, prazo_total_meses, tempo_giro_meses, considerar_juros) ==
    IF ~considerar_juros \/ valor_financiado = 0 THEN ZeroFinanc
    ELSE
    LET taxa_mensal == taxa_mensal_de(taxa_juros_anual)
        pmt == npf_pmt(taxa_mensal, prazo_total_meses, valor_financiado)
        prestacao_mensal == -pmt
        total_prestacoes_pagas == FMulInt(prestacao_mensal, tempo_giro_meses)
        fv == npf_fv(taxa_mensal, tempo_giro_meses, pmt, valor_financiado)
        saldo_devedor == Max0(-fv)
        amortizacao_no_giro == FSub(valor_financiado, saldo_devedor)
        juros_pagos_no_giro == FSub(total_prestacoes_pagas, amortizacao_no_giro)
    IN  [prestacao_mensal |-> prestacao_mensal,
         total_prestacoes_pagas |-> total_prestacoes_pagas,
         saldo_devedor |-> saldo_devedor,
         juros_pagos_no_giro |-> juros_pagos_no_giro,
         amortizacao_no_giro |-> amortizacao_no_giro]

\* variant: the tax is charged on a loss too
calcular_lucros_ir_sem_condicao(revenda, capital_proprio_investido, saldo_devedor, juros_pagos_no_giro, quem_paga_custos_venda) ==
    LET comissao_venda  == FMulPct(revenda, TAXA_COMISSAO_VENDA)
        itbi_venda      == FMulPct(revenda, TAXA_ITBI)
        escritura_venda == FMulPct(revenda, TAXA_ESCRITURA)
        registro_venda  == FMulPct(revenda, TAXA_REGISTRO)
        total_custos_transferencia ==
            FAdd(FAdd(itbi_venda, escritura_venda), registro_venda)
        comprador == quem_paga_custos_venda = "Comprador"
        receita_liquida_venda ==
            IF comprador
            THEN FSub(FSub(revenda, comissao_venda), saldo_devedor)
            ELSE FSub(FSub(FSub(revenda, comissao_venda), total_custos_transferencia),
                      saldo_devedor)
        custos_transferencia_vendedor ==
            IF comprador THEN 0 ELSE total_custos_transferencia
        lucro_bruto ==
            FSub(FSub(receita_liquida_venda, capital_proprio_investido),
                 juros_pagos_no_giro)
        ir_gcap == FMulPct(lucro_bruto, TAXA_IR_GCAP)
        lucro_liquido == FSub(lucro_bruto, ir_gcap)
    IN  [comissao_venda |-> comissao_venda, itbi_venda |-> itbi_venda,
         escritura_venda |-> escritura_venda, registro_venda |-> registro_venda,
         total_custos_transferencia |-> total_custos_transferencia,
         custos_transferencia_vendedor |-> custos_transferencia_vendedor,
         receita_liquida_venda |-> receita_liquida_venda,
         lucro_bruto |-> lucro_bruto, ir_gcap |-> ir_gcap,
         lucro_liquido |-> lucro_liquido, quem_paga |-> quem_paga_custos_venda,
         saldo_devedor_quitado |-> saldo_devedor]

\* variant: the transfer costs come out of the proceeds whoever pays them
calcular_lucros_vendedor_sempre_paga(revenda, capital_proprio_investido, saldo_devedor, juros_pagos_no_giro, quem_paga_custos_venda) ==
    LET comissao_venda  == FMulPct(revenda, TAXA_COMISSAO_VENDA)
        itbi_venda      == FMulPct(revenda, TAXA_ITBI)
        escritura_venda == FMulPct(revenda, TAXA_ESCRITURA)
        registro_venda  == FMulPct(revenda, TAXA_REGISTRO)
        total_custos_transferencia ==
            FAdd(FAdd(itbi_venda, escritura_venda), registro_venda)
        comprador == quem_paga_custos_venda = "Comprador"
        receita_liquida_venda ==
            IF FALSE
            THEN FSub(FSub(revenda, comissao_venda), saldo_devedor)
            ELSE FSub(FSub(FSub(revenda, comissao_venda), total_custos_transferencia),
                      saldo_devedor)
        custos_transferencia_vendedor ==
            IF comprador THEN 0 ELSE total_custos_transferencia
        lucro_bruto ==
            FSub(FSub(receita_liquida_venda, capital_proprio_investido),
                 juros_pagos_no_giro)
        ir_gcap == IF lucro_bruto > 0 THEN FMulPct(lucro_bruto, TAXA_IR_GCAP) ELSE 0
        lucro_liquido == FSub(lucro_bruto, ir_gcap)
    IN  [comissao_venda |-> comissao_venda, itbi_venda |-> itbi_venda,
         escritura_venda |-> escritura_venda, registro_venda |-> registro_venda,
         total_custos_transferencia |-> total_custos_transferencia,
         custos_transferencia_vendedor |-> custos_transferencia_vendedor,
         receita_liquida_venda |-> receita_liquida_venda,
         lucro_bruto |-> lucro_bruto, ir_gcap |-> ir_gcap,
         lucro_liquido |-> lucro_liquido, quem_paga |-> quem_paga_custos_venda,
         saldo_devedor_quitado |-> saldo_devedor]

\* calcular_lucros(revenda, capital_proprio_investido, saldo_devedor,
\*     juros_pagos_no_giro, quem_paga_custos_venda)
calcular_lucros(revenda, capital_proprio_investido, saldo_devedor, juros_pagos_no_giro, quem_paga_custos_venda) ==
    LET comissao_venda  == FMulPct(revenda, TAXA_COMISSAO_VENDA)
        itbi_venda      == FMulPct(revenda, TAXA_ITBI)
        escritura_venda == FMulPct(revenda, TAXA_ESCRITURA)
        registro_venda  == FMulPct(revenda, TAXA_REGISTRO)
        total_custos_transferencia ==
            FAdd(FAdd(itbi_venda, escritura_venda), registro_venda)
        comprador == quem_paga_custos_venda = "Comprador"
        receita_liquida_venda ==
            IF comprador
            THEN FSub(FSub(revenda, comissao_venda), saldo_devedor)
            ELSE FSub(FSub(FSub(revenda, comissao_venda), total_custos_transferencia),
                      saldo_devedor)
        custos_transferencia_vendedor ==
            IF comprador THEN 0 ELSE total_custos_transferencia
        lucro_bruto ==
            FSub(FSub(receita_liquida_venda, capital_proprio_investido),
                 juros_pagos_no_giro)
        ir_gcap == IF lucro_bruto > 0 THEN FMulPct(lucro_bruto, TAXA_IR_GCAP) ELSE 0
        lucro_liquido == FSub(lucro_bruto, ir_gcap)
    IN  [comissao_venda |-> comissao_venda, itbi_venda |-> itbi_venda,
         escritura_venda |-> escritura_venda, registro_venda |-> registro_venda,
         total_custos_transferencia |-> total_custos_transferencia,
         custos_transferencia_vendedor |-> custos_transferencia_vendedor,
         receita_liquida_venda |-> receita_liquida_venda,
         lucro_bruto |-> lucro_bruto, ir_gcap |-> ir_gcap,
         lucro_liquido |-> lucro_liquido, quem_paga |-> quem_paga_custos_venda,
         saldo_devedor_quitado |-> saldo_devedor]

\* A value that may be None is None or <<v>>, the float v; nan is npf.irr's
\* "no solution".
None == "None"
NaN == "nan"

\* variant: a series of meses entries
fluxo_caixa_de_curto(total_investido, lucro_liquido, meses) ==
    <<-total_investido>> \o [k \in 1..(meses - 2) |-> 0]
        \o <<FAdd(total_investido, lucro_liquido)>>

\* the monthly series handed to npf.irr
fluxo_caixa_de(total_investido, lucro_liquido, meses) ==
    <<-total_investido>> \o [k \in 1..(meses - 1) |-> 0]
        \o <<FAdd(total_investido, lucro_liquido)>>

\* npf.irr on a series <<-T, 0, ..., 0, R>>: the positive real root x of
\* R*x^n - T = 0 gives the rate 1/x - 1; without such a root the result is nan
irr_tem_raiz(fluxo) ==
    LET T == -fluxo[1]
        R == fluxo[Len(fluxo)]
    IN  (T > 0 /\ R > 0) \/ (T < 0 /\ R < 0)

\* (y / One)^n <= q / One, for y and q in units
PowNLE(y, n, q) ==
    LET p == PowGuard(y, FracBits, n)
    IN  LeqScaled(<<p[1], p[2] + FracBits>>, q)

\* the largest y of lo..hi, in units, with y^n <= q (lo^n <= q is given)
RECURSIVE RaizFloor(_, _, _, _)
RaizFloor(q, n, lo, hi) ==
    IF hi - lo <= 1
    THEN IF PowNLE(hi, n, q) THEN hi ELSE lo
    ELSE LET mid == (lo + hi) \div 2
         IN  IF PowNLE(mid, n, q)
             THEN RaizFloor(q, n, mid, hi)
             ELSE RaizFloor(q, n, lo, mid)

\* npf.irr(values) of numpy_financial:
\*   res = np.roots(values[::-1])
\*   mask = (res.imag == 0) & (res.real > 0)
\*   if not mask.any(): return np.nan
\*   rate = 1/res[mask].real - 1; return the rate nearest to 0
\* for the series <<-T, 0, ..., 0, R>> of n + 1 entries: x is the n-th root of
\* T/R, delivered to the unit and rounded to the format
npf_irr(values) ==
    IF ~irr_tem_raiz(values) THEN NaN
    ELSE LET n == Len(values) - 1
             q == FDiv(-values[1], values[Len(values)])
             x == Rnd(RaizFloor(q, n, 0, IF q > One THEN q ELSE One), 1)
         IN  <<FSub(FDiv(One, x), One)>>

\* m * 2^e rounded to Prec significant bits, ties to even, as the pair
\* <<mantissa, exponent>> with an odd mantissa: a float beyond the range of
\* the unit count
Largo(m, e) ==
    LET a == Abs(m)
        q == a \div 2^Prec
        k == CHOOSE j \in 0..30 : q < 2^j /\ (j = 0 \/ q >= 2^(j - 1))
        r == Mantissa(NearestEven(a, 2^k), e + k)
    IN  <<Sgn(m) * r[1], r[2]>>

\* ((1 + tir_mensal)**12 - 1) * 100, in percentage points, as a pair of Largo
anualizar(tir_mensal) ==
    LET p  == PowGuard(FAdd(One, tir_mensal), FracBits, 12)
        pw == Largo(p[1], p[2])
        m  == pw[1]
        e  == pw[2]
        menos1 == IF e < -(2 * Prec + 1) THEN <<-1, 0>>
                  ELSE IF e < 0 THEN Largo(m - 2^(-e), e)
                  ELSE IF e <= Prec + 2 THEN Largo(m * 2^e - 1, 0)
                  ELSE pw
    IN  Largo(menos1[1] * 100, menos1[2])

\* line 423: nan is not None, so nan goes through the arithmetic and stays nan
tir_anual_de(tir_mensal) ==
    IF tir_mensal = None THEN None
    ELSE IF tir_mensal = NaN THEN NaN
    ELSE anualizar(tir_mensal[1])

\* variant: the ROI guard also looks at total_investido
calcular_metricas_financeiras_guarda_unica(lucro_liquido, custo_total_ativo, total_investido, meses) ==
    LET roi == IF custo_total_ativo # 0 /\ total_investido # 0
               THEN <<FMulInt(FDiv(lucro_liquido, custo_total_ativo), 100)>> ELSE None
        roe == IF total_investido # 0
               THEN <<FMulInt(FDiv(lucro_liquido, total_investido), 100)>> ELSE None
        fluxo_caixa == fluxo_caixa_de(total_investido, lucro_liquido, meses)
        tir_mensal == npf_irr(fluxo_caixa)
    IN  [roi |-> roi, roe |-> roe, fluxo_caixa |-> fluxo_caixa,
         tir_mensal |-> tir_mensal,
         tir_anual |-> tir_anual_de(tir_mensal)]

\* calcular_metricas_financeiras(lucro_liquido, custo_total_ativo,
\*     total_investido, meses); npf.irr raises neither ValueError nor TypeError
\* on a list of floats, so the except branch is not taken
calcular_metricas_financeiras(lucro_liquido, custo_total_ativo, total_investido, meses) ==
    LET roi == IF custo_total_ativo # 0
               THEN <<FMulInt(FDiv(lucro_liquido, custo_total_ativo), 100)>> ELSE None
        roe == IF total_investido # 0
               THEN <<FMulInt(FDiv(lucro_liquido, total_investido), 100)>> ELSE None
        fluxo_caixa == fluxo_caixa_de(total_investido, lucro_liquido, meses)
        tir_mensal == npf_irr(fluxo_caixa)
    IN  [roi |-> roi, roe |-> roe, fluxo_caixa |-> fluxo_caixa,
         tir_mensal |-> tir_mensal,
         tir_anual |-> tir_anual_de(tir_mensal)]

\* lines 641-647: the text of a metric
roi_display(valor) == IF valor # None THEN "%" ELSE "N/A"
tir_display(tir_anual) ==
    IF tir_anual # None THEN (IF tir_anual = NaN THEN "nan%" ELSE "%") ELSE "Inválida"

(* ------------------------------ inputs --------------------------------- *)
\* amounts typed into the number inputs (currency, then in units)
ValoresLance   == {0, 87, 135}
ValoresRevenda == {80, 160}
ValoresExtras  == {0, 12}
\* annual rates typed as percentages
TaxasAnuaisPct == {0, 12, 100}
\* the selectbox of the auctioneer commission
ComissoesLeiloeiro == {0, 5, 10}
\* positions of the down-payment slider
Entradas == {0, 20, 28, 100}
Pagadores == {"Vendedor", "Comprador"}

\* the sidebar widgets (lines 554-569)
Inputs ==
    { i \in [lance : {v * One : v \in ValoresLance},
             revenda : {v * One : v \in ValoresRevenda},
             meses : 1..MaxMeses,
             taxa_leiloeiro : ComissoesLeiloeiro,
             reforma_extras : {v * One : v \in ValoresExtras},
             entrada : Entradas,
             considerar_juros : BOOLEAN,
             taxa_juros_anual : {Rnd(t * One, 100) : t \in TaxasAnuaisPct},
             prazo_financiamento_meses : 1..MaxPrazo,
             quem_paga_custos_venda : Pagadores] :
        \* without financing the rate is the default and the term the holding time
        ~i.considerar_juros =>
            /\ i.taxa_juros_anual = FOfPct(TAXA_JUROS_ANUAL_DEFAULT)
            /\ i.prazo_financiamento_meses = i.meses }

(* ------------------------- the script, one run ------------------------- *)
VARIABLES
    inputs,             \* the widget values of this run
    pc,                 \* position of the run in the script
    valido, mensagem,   \* result of validar_inputs
    custos_aquisicao, estrutura_capital, custos_financ, lucros,
    total_investido, metricas,
    conferencia,        \* the "Validacao Matematica" expander
    call, ret,          \* a direct call of one function and its return value
    session_state,      \* st.session_state of the browser session
    ultima_senha        \* the text of the most recent password submission

sessao_vars == <<session_state, ultima_senha>>

run_vars == <<inputs, pc, valido, mensagem, custos_aquisicao, estrutura_capital,
              custos_financ, lucros, total_investido, metricas, conferencia>>
vars == <<inputs, pc, valido, mensagem, custos_aquisicao, estrutura_capital,
          custos_financ, lucros, total_investido, metricas, conferencia, call, ret, sessao_vars>>

\* a name of the script that no statement has assigned yet; valido and
\* total_investido hold <<value>> once assigned
Unbound == <<>>

NoRun ==
    /\ valido = Unbound /\ mensagem = None
    /\ custos_aquisicao = Unbound /\ estrutura_capital = Unbound
    /\ custos_financ = Unbound /\ lucros = Unbound
    /\ total_investido = Unbound /\ metricas = Unbound /\ conferencia = Unbound

\* no direct call: `call' names a function and its arguments, `ret' is the
\* empty sequence before the call returns and <<value>> after
NoCall == [fn |-> "none"]

\* line 73: the expected password
SENHA == "investimento"

\* variant: the typed password stays in the session state
password_entered_sem_apagar(ss) ==
    IF ss["password"] = SENHA
        THEN [k \in DOMAIN ss \cup {"password_correct"} |->
                  IF k = "password_correct" THEN TRUE ELSE ss[k]]
        ELSE [k \in DOMAIN ss \cup {"password_correct"} |->
                  IF k = "password_correct" THEN FALSE ELSE ss[k]]

\* lines 71-77: the on_change callback of the password field
password_entered(ss) ==
    IF ss["password"] = SENHA
        THEN [k \in (DOMAIN ss \cup {"password_correct"}) \ {"password"} |->
                  IF k = "password_correct" THEN TRUE ELSE ss[k]]
        ELSE [k \in DOMAIN ss \cup {"password_correct"} |->
                  IF k = "password_correct" THEN FALSE ELSE ss[k]]

\* lines 81-86 and 91-96: st.text_input(..., key="password") registers its
\* key, empty, when the session does not hold it
text_input(ss) ==
    [k \in DOMAIN ss \cup {"password"} |->
         IF k \in DOMAIN ss THEN ss[k] ELSE ""]

\* lines 68-101: <<returned value, session state after the call, notice shown>>
verificar_senha(ss) ==
    IF "password_correct" \notin DOMAIN ss
        THEN <<FALSE, text_input(ss), "info">>
        ELSE IF ~ss["password_correct"]
                 THEN <<FALSE, text_input(ss), "error">>
                 ELSE <<TRUE, ss, "">>

\* the session of a run that is past the gate (lines 104-105)
SessaoAceita ==
    /\ session_state = [password_correct |-> TRUE]
    /\ ultima_senha = <<SENHA>>

Init ==
    /\ inputs \in Inputs
    /\ pc = "validar"
    /\ NoRun
    /\ call = NoCall /\ ret = <<>>
    /\ SessaoAceita

\* variant: the script goes on after a fatal validation
Validar_sem_parar ==
    /\ pc = "validar"
    /\ LET r == validar_inputs(inputs.lance, inputs.revenda, inputs.meses, inputs.entrada)
       IN  /\ valido' = <<r[1]>>
           /\ mensagem' = r[2]
           /\ pc' = "aquisicao"
    /\ UNCHANGED <<inputs, custos_aquisicao, estrutura_capital, custos_financ, lucros,
                   total_investido, metricas, conferencia, call, ret, sessao_vars>>

\* lines 571-577: validation; a fatal result stops the script
Validar ==
    /\ pc = "validar"
    /\ LET r == validar_inputs(inputs.lance, inputs.revenda, inputs.meses, inputs.entrada)
       IN  /\ valido' = <<r[1]>>
           /\ mensagem' = r[2]
           /\ pc' = IF r[1] THEN "aquisicao" ELSE "stopped"
    /\ UNCHANGED <<inputs, custos_aquisicao, estrutura_capital, custos_financ, lucros,
                   total_investido, metricas, conferencia, call, ret, sessao_vars>>

\* line 581
Aquisicao ==
    /\ pc = "aquisicao"
    /\ custos_aquisicao' =
           calcular_custos_aquisicao(inputs.lance, inputs.taxa_leiloeiro,
                                     inputs.reforma_extras)
    /\ pc' = "estrutura"
    /\ UNCHANGED <<inputs, valido, mensagem, estrutura_capital, custos_financ, lucros,
                   total_investido, metricas, conferencia, call, ret, sessao_vars>>

\* variant: the slider value is used even without financing
entrada_do_pipeline_sem_forcar(i) == i.entrada

\* the down-payment percentage handed to calcular_estrutura_capital (lines 584-601)
entrada_do_pipeline(i) == IF ~i.considerar_juros THEN 100 ELSE i.entrada

Estrutura ==
    /\ pc = "estrutura"
    /\ estrutura_capital' =
           calcular_estrutura_capital(inputs.lance, entrada_do_pipeline(inputs),
                                      custos_aquisicao.total_taxas,
                                      custos_aquisicao.comissao_leiloeiro,
                                      inputs.reforma_extras)
    /\ pc' = "financiamento"
    /\ UNCHANGED <<inputs, valido, mensagem, custos_aquisicao, custos_financ, lucros,
                   total_investido, metricas, conferencia, call, ret, sessao_vars>>

\* lines 603-609
Financiamento ==
    /\ pc = "financiamento"
    /\ custos_financ' =
           calcular_custos_financiamento(
               estrutura_capital.valor_financiado,
               inputs.taxa_juros_anual,
               IF inputs.considerar_juros THEN inputs.prazo_financiamento_meses
                                          ELSE inputs.meses,
               inputs.meses,
               inputs.considerar_juros)
    /\ pc' = "lucros"
    /\ UNCHANGED <<inputs, valido, mensagem, custos_aquisicao, estrutura_capital, lucros,
                   total_investido, metricas, conferencia, call, ret, sessao_vars>>

\* lines 611-617
Lucros ==
    /\ pc = "lucros"
    /\ lucros' = calcular_lucros(inputs.revenda,
                                 estrutura_capital.capital_proprio_investido,
                                 custos_financ.saldo_devedor,
                                 custos_financ.juros_pagos_no_giro,
                                 inputs.quem_paga_custos_venda)
    /\ pc' = "metricas"
    /\ UNCHANGED <<inputs, valido, mensagem, custos_aquisicao, estrutura_capital,
                   custos_financ, total_investido, metricas, conferencia, call, ret, sessao_vars>>

\* line 620
total_investido_de(estrutura, financ) ==
    FAdd(estrutura.capital_proprio_investido, financ.juros_pagos_no_giro)

\* lines 619-627
Metricas ==
    /\ pc = "metricas"
    /\ total_investido' = <<total_investido_de(estrutura_capital, custos_financ)>>
    /\ metricas' = calcular_metricas_financeiras(lucros.lucro_liquido,
                                                 custos_aquisicao.custo_total_ativo,
                                                 total_investido'[1], inputs.meses)
    /\ pc' = "conferencia"
    /\ UNCHANGED <<inputs, valido, mensagem, custos_aquisicao, estrutura_capital,
                   custos_financ, lucros, conferencia, call, ret, sessao_vars>>

\* lines 804-830: the reconciliation and the branch the self-check takes;
\* diferenca < 0.01 compares units: diferenca/One < 1/100
validacao_matematica(revenda, estrutura, financ, luc) ==
    LET total_saidas   == FAdd(estrutura.capital_proprio_investido,
                               financ.juros_pagos_no_giro)
        total_entradas == FSub(FSub(FSub(revenda, luc.comissao_venda),
                                    luc.custos_transferencia_vendedor),
                               financ.saldo_devedor)
        lucro_calculado_metodo1 ==
            FSub(FSub(total_entradas, total_saidas), luc.ir_gcap)
        diferenca == Abs(FSub(lucro_calculado_metodo1, luc.lucro_liquido))
    IN  [total_saidas |-> total_saidas, total_entradas |-> total_entradas,
         lucro_calculado_metodo1 |-> lucro_calculado_metodo1,
         diferenca |-> diferenca,
         validacao_ok |-> diferenca * 100 < One]

Conferencia ==
    /\ pc = "conferencia"
    /\ conferencia' = validacao_matematica(inputs.revenda, estrutura_capital,
                                           custos_financ, lucros)
    /\ pc' = "done"
    /\ UNCHANGED <<inputs, valido, mensagem, custos_aquisicao, estrutura_capital,
                   custos_financ, lucros, total_investido, metricas, call, ret, sessao_vars>>

Next ==
    \/ Validar
    \/ Aquisicao
    \/ Estrutura
    \/ Financiamento
    \/ Lucros
    \/ Metricas
    \/ Conferencia

Spec == Init /\ [][Next]_vars

\* the statements of the script in the order they are written
Ordem ==
    {<<"validar", "stopped">>, <<"validar", "aquisicao">>,
     <<"aquisicao", "estrutura">>, <<"estrutura", "financiamento">>,
     <<"financiamento", "lucros">>, <<"lucros", "metricas">>,
     <<"metricas", "conferencia">>, <<"conferencia", "done">>}

\* The script is straight-line code: once started, a run is not held back
\* before its last statement or its st.stop().
\* The fair runs are followed from the sessions with the default commission,
\* no extra works and the seller paying the costs of the sale.
InitJusta ==
    /\ Init
    /\ inputs.taxa_leiloeiro = 5
    /\ inputs.reforma_extras = 0
    /\ inputs.quem_paga_custos_venda = "Vendedor"

\* what a step of Next does to the position: the next statement in the order
\* of the script, the one after the validation being decided by its result
Passo ==
    \E p \in Ordem :
        /\ p[1] = pc
        /\ pc = "validar" =>
              ((p[2] = "aquisicao") <=>
                   validar_inputs(inputs.lance, inputs.revenda, inputs.meses,
                                  inputs.entrada)[1])
        /\ pc' = p[2]

SpecJusta == InitJusta /\ [][Next]_vars /\ WF_pc(Passo)


(* ------------------------ the browser session ------------------------- *)
\* texts typed into the password field
Senhas == {"investimento", "Investimento", "senha", ""}

\* the widget values of the runs of a session
InputsSessao ==
    { i \in Inputs : /\ i.taxa_leiloeiro = 5
                     /\ i.reforma_extras = 0
                     /\ i.quem_paga_custos_venda = "Vendedor"
                     /\ i.entrada = 20
                     /\ ~i.considerar_juros }

\* a new session: empty session state, the script about to run
InitSessao ==
    /\ inputs \in InputsSessao
    /\ pc = "portao"
    /\ NoRun
    /\ call = NoCall /\ ret = <<>>
    /\ session_state = <<>>
    /\ ultima_senha = Unbound

\* lines 104-105: the gate; st.stop() when verificar_senha returns False
Portao ==
    /\ pc = "portao"
    /\ LET r == verificar_senha(session_state)
       IN  /\ session_state' = r[2]
           /\ pc' = IF r[1] THEN "validar" ELSE "barrado"
    /\ UNCHANGED <<inputs, valido, mensagem, custos_aquisicao, estrutura_capital,
                   custos_financ, lucros, total_investido, metricas, conferencia,
                   call, ret, ultima_senha>>

\* the user commits a new text in the password field of a run stopped at the
\* gate: the widget value goes to the session state, the on_change callback
\* runs (lines 71-77) and the script is run again
Submeter(senha) ==
    /\ pc = "barrado"
    /\ "password" \in DOMAIN session_state
    /\ senha # session_state["password"]
    /\ session_state' =
           password_entered([session_state EXCEPT !["password"] = senha])
    /\ ultima_senha' = <<senha>>
    /\ pc' = "portao"
    /\ UNCHANGED <<inputs, valido, mensagem, custos_aquisicao, estrutura_capital,
                   custos_financ, lucros, total_investido, metricas, conferencia,
                   call, ret>>

\* any other interaction runs the script again from its first line, with the
\* widget values of the moment and the same session state
Rerun ==
    /\ pc \notin {"portao", "idle"}
    /\ pc' = "portao"
    /\ inputs' \in InputsSessao
    /\ valido' = Unbound /\ mensagem' = None
    /\ custos_aquisicao' = Unbound /\ estrutura_capital' = Unbound
    /\ custos_financ' = Unbound /\ lucros' = Unbound
    /\ total_investido' = Unbound /\ metricas' = Unbound /\ conferencia' = Unbound
    /\ UNCHANGED <<call, ret, sessao_vars>>

NextSessao ==
    \/ Portao
    \/ \E senha \in Senhas : Submeter(senha)
    \/ Rerun
    \/ Next

SpecSessao == InitSessao /\ [][NextSessao]_vars

(* ------------------- direct calls of the pure functions ---------------- *)
\* Each function is also exercised on its own, over arguments the script's
\* widgets can produce and, for validar_inputs, over the out-of-range values
\* it is written to reject.
Idle ==
    /\ inputs = None /\ pc = "idle" /\ NoRun
    /\ session_state = <<>> /\ ultima_senha = Unbound

\* whole currency amounts 1..MaxValor, in units
Valores == {v * One : v \in 1..MaxValor}
\* amounts with a fractional part
ValoresFrac == {(2 * v + 1) * (One \div 2) : v \in 0..15}

Chamar(fn, resultado) ==
    /\ call.fn = fn /\ ret = <<>>
    /\ ret' = <<resultado>>
    /\ UNCHANGED <<run_vars, call, sessao_vars>>

\* validar_inputs --------------------------------------------------------
ArgsValidar ==
    [fn : {"validar_inputs"},
     lance : {-One, 0, 1, 87 * One},
     revenda : {0, 80 * One, 87 * One, 160 * One},
     meses : -1..2,
     entrada_pct : {-1, 0, 20, 100, 101}]

InitValidar == Idle /\ call \in ArgsValidar /\ ret = <<>>
ChamarValidar ==
    Chamar("validar_inputs",
           validar_inputs(call.lance, call.revenda, call.meses, call.entrada_pct))
NextValidar == ChamarValidar
SpecValidar == InitValidar /\ [][NextValidar]_vars

\* calcular_custos_aquisicao ----------------------------------------------
ArgsAquisicao ==
    [fn : {"calcular_custos_aquisicao"},
     lance : Valores \cup ValoresFrac,
     taxa_leiloeiro : ComissoesLeiloeiro,
     reforma_extras : {0, 12 * One, 25 * (One \div 2)}]

InitAquisicao == Idle /\ call \in ArgsAquisicao /\ ret = <<>>
ChamarAquisicao ==
    Chamar("calcular_custos_aquisicao",
           calcular_custos_aquisicao(call.lance, call.taxa_leiloeiro, call.reforma_extras))
NextAquisicao == ChamarAquisicao
SpecAquisicao == InitAquisicao /\ [][NextAquisicao]_vars

\* calcular_estrutura_capital ---------------------------------------------
ArgsEstrutura ==
    { a \in [fn : {"calcular_estrutura_capital"},
             lance : {1} \cup Valores \cup ValoresFrac,
             entrada : 0..100,
             taxa_leiloeiro : {0, 5},
             reforma_extras : {0, 12 * One}] :
        \* nine positions of the slider out of ten are left out
        a.entrada % 10 \in {0, 8} \/ a.entrada \in {1, 99} }

InitEstrutura == Idle /\ call \in ArgsEstrutura /\ ret = <<>>
ChamarEstrutura ==
    LET aq == calcular_custos_aquisicao(call.lance, call.taxa_leiloeiro,
                                        call.reforma_extras)
    IN  Chamar("calcular_estrutura_capital",
               calcular_estrutura_capital(call.lance, call.entrada, aq.total_taxas,
                                          aq.comissao_leiloeiro, call.reforma_extras))
NextEstrutura == ChamarEstrutura
SpecEstrutura == InitEstrutura /\ [][NextEstrutura]_vars

\* calcular_custos_financiamento ------------------------------------------
\* the annual rates: typed percentage / 100
TaxasAnuais == {Rnd(t * One, 100) : t \in TaxasAnuaisPct \cup {1360}}

\* terms and holding times: the short ones, one of each past the short range
\* and one long term
Prazos == (1..MaxPrazo) \cup {PrazoMedio, PrazoLongo}
Giros  == (1..(MaxMeses + 1)) \cup {GiroLongo}

ArgsFinanc ==
    { a \in [fn : {"calcular_custos_financiamento"},
             valor_financiado : {0} \cup {v * One : v \in 1..MaxFinanciado}
                                    \cup {(2 * m + 1) * (One \div 16) : m \in 112..127},
             taxa_juros_anual : TaxasAnuais,
             prazo_total_meses : Prazos,
             tempo_giro_meses : Giros,
             considerar_juros : BOOLEAN] :
        \* the long term only with the rates that keep (1 + rate)^term small
        a.prazo_total_meses > PrazoMedio => a.taxa_juros_anual <= One }

simular(a, giro) ==
    calcular_custos_financiamento(a.valor_financiado, a.taxa_juros_anual,
                                  a.prazo_total_meses, giro, a.considerar_juros)

InitFinanc == Idle /\ call \in ArgsFinanc /\ ret = <<>>
ChamarFinanc ==
    Chamar("calcular_custos_financiamento", simular(call, call.tempo_giro_meses))
NextFinanc == ChamarFinanc
SpecFinanc == InitFinanc /\ [][NextFinanc]_vars

\* calcular_lucros ---------------------------------------------------------
ArgsLucros ==
    [fn : {"calcular_lucros"},
     revenda : {v * One : v \in {80, 100, 135, 160, 163, 250}},
     capital_proprio_investido : {v * One : v \in {0, 21, 39, 97, 110}}
                                     \cup {9984, 13504},
     saldo_devedor : {0} \cup {v * One : v \in {23, 58, 69}} \cup {5952},
     juros_pagos_no_giro : {0, 64, 256, 1920, 9 * One},
     quem_paga_custos_venda : Pagadores]

InitLucros == Idle /\ call \in ArgsLucros /\ ret = <<>>
ChamarLucros ==
    Chamar("calcular_lucros",
           calcular_lucros(call.revenda, call.capital_proprio_investido,
                           call.saldo_devedor, call.juros_pagos_no_giro,
                           call.quem_paga_custos_venda))
NextLucros == ChamarLucros
SpecLucros == InitLucros /\ [][NextLucros]_vars

\* calcular_metricas_financeiras -------------------------------------------
ArgsMetricas ==
    [fn : {"calcular_metricas_financeiras"},
     lucro_liquido : {v * One : v \in {-120, -97, -20, 0, 1, 47, 120}},
     custo_total_ativo : {v * One : v \in {0, 97, 135}},
     total_investido : {v * One : v \in {0, 10, 97}},
     meses : 1..MaxMeses]

InitMetricas == Idle /\ call \in ArgsMetricas /\ ret = <<>>
ChamarMetricas ==
    Chamar("calcular_metricas_financeiras",
           calcular_metricas_financeiras(call.lucro_liquido, call.custo_total_ativo,
                                         call.total_investido, call.meses))
NextMetricas == ChamarMetricas
SpecMetricas == InitMetricas /\ [][NextMetricas]_vars

(* ------------------------------ properties ----------------------------- *)
\* Amounts compare as the script's floats do: a == b is equality of the two
\* values, and a sum written a + b == c is the float sum FAdd(a, b) = c.

\* C1, as stated: in every run that passes validation, whatever the financing
\* flag and the cost payer, lucro_liquido and the reconciliation
\* (entradas - saidas - IR) differ by less than 0.01, so the self-check takes
\* its "Validacao OK" branch.
C1_ValidacaoSempreOK ==
    pc = "done" => conferencia.validacao_ok

\* C2, as stated: in every run that passes validation with revenda < lance the
\* pipeline computes to the end and the reported lucro_liquido is negative.
C2_RevendaMenorDaPrejuizo ==
    (pc \in {"metricas", "conferencia", "done"} /\ inputs.revenda < inputs.lance)
        => lucros.lucro_liquido < 0

\* C3: validar_inputs always returns a pair (bool, message).  It is
\* (False, message) when lance <= 0, else when meses <= 0, else when the
\* down-payment percentage is outside [0, 100]; otherwise it is (True, m) with
\* m a non-empty advisory when revenda < lance and m empty when
\* revenda >= lance.  Only the three range failures give False.
C3_ValidarInputs ==
    ret # <<>> =>
        LET r       == ret[1]
            fora    == call.entrada_pct < 0 \/ call.entrada_pct > 100
            fatal   == call.lance <= 0 \/ call.meses <= 0 \/ fora
        IN  /\ Len(r) = 2 /\ r[1] \in BOOLEAN
            /\ r[1] = ~fatal
            /\ call.lance <= 0 => r = <<FALSE, MsgLance>>
            /\ (call.lance > 0 /\ call.meses <= 0) => r = <<FALSE, MsgMeses>>
            /\ (call.lance > 0 /\ call.meses > 0 /\ fora) => r = <<FALSE, MsgEntrada>>
            /\ fatal => r[2] # ""
            /\ (~fatal /\ call.revenda < call.lance) => (r[1] /\ r[2] # "")
            /\ (~fatal /\ call.revenda >= call.lance) => r = <<TRUE, "">>

\* C3 happens: a bid above the resale price came back valid with the advisory
C3_Advertencia ==
    /\ ret # <<>>
    /\ call.lance > 0 /\ call.revenda < call.lance
    /\ ret[1][1] = TRUE /\ ret[1][2] = MsgRevenda

\* C4: with financing disabled (the run then uses a down payment of 100%
\* whatever the slider says) or with the slider at 100%, valor_financiado is 0
\* and the five loan outputs are 0 for every rate, term and holding time; and
\* calcular_custos_financiamento returns the five zeros whenever its flag is
\* false or the financed amount is 0.
C4_SemFinanciamentoTudoZero ==
    pc \in {"lucros", "metricas", "conferencia", "done"} =>
        LET zero(r) == /\ r.prestacao_mensal = 0
                       /\ r.total_prestacoes_pagas = 0
                       /\ r.saldo_devedor = 0
                       /\ r.juros_pagos_no_giro = 0
                       /\ r.amortizacao_no_giro = 0
            f(valor, flag) ==
                calcular_custos_financiamento(valor, inputs.taxa_juros_anual,
                                              inputs.prazo_financiamento_meses,
                                              inputs.meses, flag)
        IN  /\ (~inputs.considerar_juros \/ inputs.entrada = 100) =>
                   /\ estrutura_capital.valor_financiado = 0
                   /\ estrutura_capital.valor_entrada = inputs.lance
                   /\ zero(custos_financ)
            /\ estrutura_capital.valor_financiado = 0 => zero(custos_financ)
            /\ zero(f(inputs.lance, FALSE))
            /\ zero(f(0, FALSE))
            /\ zero(f(0, TRUE))

\* C4 happens: a finished run without financing whose slider asked for a loan
C4_EntradaForcada ==
    /\ pc = "done"
    /\ ~inputs.considerar_juros /\ inputs.entrada < 100
    /\ estrutura_capital.valor_financiado = 0
    /\ custos_financ.prestacao_mensal = 0

C6_ImpostoSoSobreLucro ==
    ret # <<>> =>
        LET r == ret[1]
        IN  /\ r.lucro_bruto <= 0 => r.ir_gcap = 0
            /\ r.lucro_bruto > 0 => r.ir_gcap = FMulPct(r.lucro_bruto, 15)
            /\ r.lucro_liquido = FSub(r.lucro_bruto, r.ir_gcap)
            /\ r.lucro_liquido <= r.lucro_bruto
            /\ (r.lucro_liquido > 0) = (r.lucro_bruto > 0)
            /\ (r.lucro_liquido < 0) = (r.lucro_bruto < 0)

\* C6 happens: a loss, returned untaxed as a negative number
C6_Prejuizo ==
    /\ ret # <<>>
    /\ ret[1].lucro_bruto < 0
    /\ ret[1].ir_gcap = 0
    /\ ret[1].lucro_liquido = ret[1].lucro_bruto

C8_SaldoDevedorDecrescente ==
    (ret # <<>> /\ call.considerar_juros /\ call.valor_financiado > 0) =>
        LET r == ret[1]
        IN  /\ simular(call, call.tempo_giro_meses + 1).saldo_devedor <= r.saldo_devedor
            /\ r.saldo_devedor <= call.valor_financiado
            /\ r.saldo_devedor >= 0
            /\ call.tempo_giro_meses = call.prazo_total_meses
                   => r.saldo_devedor * 100 <= call.valor_financiado

\* C9: for every lance > 0, commission rate >= 0 and extras >= 0,
\* calcular_custos_aquisicao returns itbi = 4%, escritura = 3%, fundos = 1%
\* and registro = 3% of lance, total_taxas their sum, and custo_total_ativo
\* the sum of lance, the four fees, the commission and the extras (added as
\* lance + total_taxas + comissao + extras, hence within three units in the
\* last place of the sum of the seven amounts), never below lance.
C9_CustosAquisicao ==
    ret # <<>> =>
        LET r == ret[1]
            P == call.lance
        IN  /\ r.itbi = FMulPct(P, 4)
            /\ r.escritura = FMulPct(P, 3)
            /\ r.fundos = FMulPct(P, 1)
            /\ r.registro = FMulPct(P, 3)
            /\ r.comissao_leiloeiro = FMulPct(P, call.taxa_leiloeiro)
            /\ r.total_taxas = FAdd(FAdd(FAdd(r.itbi, r.escritura), r.fundos), r.registro)
            /\ r.custo_total_ativo =
                   FAdd(FAdd(FAdd(P, r.total_taxas), r.comissao_leiloeiro),
                        call.reforma_extras)
            /\ Abs(r.custo_total_ativo
                     - (P + r.itbi + r.escritura + r.fundos + r.registro
                          + r.comissao_leiloeiro + call.reforma_extras))
                   <= 3 * Ulp(r.custo_total_ativo)
            /\ r.custo_total_ativo >= P

\* C9 happens: a purchase with fees, commission and extras on top of the bid
C9_ComTaxasComissaoExtras ==
    /\ ret # <<>>
    /\ call.taxa_leiloeiro = 10 /\ call.reforma_extras > 0
    /\ ret[1].total_taxas > 0 /\ ret[1].comissao_leiloeiro > 0
    /\ ret[1].custo_total_ativo > call.lance + call.reforma_extras

\* C10, as stated: for every lance and every down-payment fraction in [0, 1],
\* valor_entrada + valor_financiado == lance exactly, both lie in [0, lance],
\* valor_financiado is 0 exactly when the fraction is 1, and
\* capital_proprio_investido = valor_entrada + total_taxas + comissao + extras.
C10_SomaExata ==
    ret # <<>> =>
        LET r  == ret[1]
            aq == calcular_custos_aquisicao(call.lance, call.taxa_leiloeiro,
                                            call.reforma_extras)
        IN  /\ FAdd(r.valor_entrada, r.valor_financiado) = call.lance
            /\ 0 <= r.valor_entrada /\ r.valor_entrada <= call.lance
            /\ 0 <= r.valor_financiado /\ r.valor_financiado <= call.lance
            /\ (r.valor_financiado = 0) = (call.entrada = 100)
            /\ r.capital_proprio_investido =
                   FAdd(FAdd(FAdd(r.valor_entrada, aq.total_taxas),
                             aq.comissao_leiloeiro), call.reforma_extras)

\* C10, amended: valor_entrada and valor_financiado lie in [0, lance] and
\* their sum is lance up to the rounding of the subtraction: within half a
\* unit in the last place of lance; a fraction of 1 gives valor_financiado = 0,
\* valor_financiado is 0 exactly when valor_entrada equals lance, which for a
\* lance of at least one currency unit happens only at a fraction of 1; and
\* capital_proprio_investido = valor_entrada + total_taxas + comissao + extras.
C10_SomaArredondada ==
    ret # <<>> =>
        LET r  == ret[1]
            aq == calcular_custos_aquisicao(call.lance, call.taxa_leiloeiro,
                                            call.reforma_extras)
        IN  /\ 2 * Abs(r.valor_entrada + r.valor_financiado - call.lance)
                   <= Ulp(call.lance)
            /\ 0 <= r.valor_entrada /\ r.valor_entrada <= call.lance
            /\ 0 <= r.valor_financiado /\ r.valor_financiado <= call.lance
            /\ call.entrada = 100 => r.valor_financiado = 0
            /\ (r.valor_financiado = 0) = (r.valor_entrada = call.lance)
            /\ (call.lance >= One /\ call.entrada < 100) => r.valor_financiado > 0
            /\ r.capital_proprio_investido =
                   FAdd(FAdd(FAdd(r.valor_entrada, aq.total_taxas),
                             aq.comissao_leiloeiro), call.reforma_extras)

\* C10 happens: a partial down payment that, added to the financed amount,
\* does not give back the bid
C10_SomaInexata ==
    /\ ret # <<>>
    /\ call.entrada > 0 /\ call.entrada < 100
    /\ ret[1].valor_financiado > 0
    /\ FAdd(ret[1].valor_entrada, ret[1].valor_financiado) # call.lance

\* C11: calcular_metricas_financeiras never divides by zero: roi is
\* lucro_liquido / custo_total_ativo * 100 when custo_total_ativo != 0 and None
\* when it is 0; roe is lucro_liquido / total_investido * 100 when
\* total_investido != 0 and None when it is 0; each guard looks only at its
\* own denominator.
C11_GuardasIndependentes ==
    ret # <<>> =>
        LET r == ret[1]
        IN  /\ (r.roi = None) = (call.custo_total_ativo = 0)
            /\ (r.roe = None) = (call.total_investido = 0)
            /\ call.custo_total_ativo # 0 =>
                   r.roi = <<FMulInt(FDiv(call.lucro_liquido, call.custo_total_ativo), 100)>>
            /\ call.total_investido # 0 =>
                   r.roe = <<FMulInt(FDiv(call.lucro_liquido, call.total_investido), 100)>>

\* C11 happens: one denominator is zero and the other is not
C11_SoRoeIndefinido ==
    /\ ret # <<>>
    /\ call.custo_total_ativo # 0 /\ call.total_investido = 0
    /\ ret[1].roi # None /\ ret[1].roe = None

\* C12, as stated: whenever the cash-flow series has no rate of return
\* (total_investido = 0, or total_investido + lucro_liquido <= 0), tir_anual is
\* None and is displayed as "Inválida"; the function never returns nan as the
\* rate.
C12_TirIndisponivel ==
    ret # <<>> =>
        LET r == ret[1]
        IN  /\ ~irr_tem_raiz(r.fluxo_caixa) =>
                   /\ r.tir_anual = None
                   /\ tir_display(r.tir_anual) = "Inválida"
            /\ r.tir_anual # NaN

\* C13, as stated: for every meses = H >= 1 the series built for the IRR has
\* exactly H entries, the first -total_investido, the last (entry H)
\* total_investido + lucro_liquido, zeros in between; tir_anual is
\* ((1 + tir_mensal)**12 - 1) * 100 of the periodic rate of that series.
C13_SerieDeHEntradas ==
    ret # <<>> =>
        LET r == ret[1]
            f == r.fluxo_caixa
        IN  /\ Len(f) = call.meses
            /\ f[1] = -call.total_investido
            /\ f[call.meses] = FAdd(call.total_investido, call.lucro_liquido)
            /\ \A k \in 2..(call.meses - 1) : f[k] = 0
            /\ r.tir_anual = tir_anual_de(npf_irr(f))

\* C13, amended: the series has H + 1 entries: the first is -total_investido
\* (month 0), the last (entry H + 1, month H) is total_investido +
\* lucro_liquido, and the H - 1 entries in between are 0; the periodic rate of
\* that series, when it exists, is positive, zero or negative as the last
\* entry is above, equal to or below the outlay, and tir_anual is
\* ((1 + tir_mensal)**12 - 1) * 100, of the same sign.
C13_SerieDeHMaisUmaEntradas ==
    ret # <<>> =>
        LET r == ret[1]
            f == r.fluxo_caixa
            T == call.total_investido
            R == FAdd(call.total_investido, call.lucro_liquido)
        IN  /\ Len(f) = call.meses + 1
            /\ f[1] = -T
            /\ f[call.meses + 1] = R
            /\ \A k \in 2..call.meses : f[k] = 0
            /\ r.tir_mensal = npf_irr(f)
            /\ (T > 0 /\ R > 0) =>
                   /\ r.tir_mensal # NaN
                   /\ R > T => r.tir_mensal[1] >= 0
                   /\ R = T => r.tir_mensal[1] = 0
                   /\ R < T => r.tir_mensal[1] <= 0
                   /\ r.tir_anual = anualizar(r.tir_mensal[1])
                   /\ r.tir_mensal[1] > 0 => r.tir_anual[1] > 0
                   /\ r.tir_mensal[1] = 0 => r.tir_anual[1] = 0
                   /\ r.tir_mensal[1] < 0 => r.tir_anual[1] < 0

\* C13 happens: three months held, four entries, a positive rate
C13_TresMesesQuatroEntradas ==
    /\ ret # <<>>
    /\ call.meses = 3 /\ Len(ret[1].fluxo_caixa) = 4
    /\ ret[1].fluxo_caixa[2] = 0 /\ ret[1].fluxo_caixa[3] = 0
    /\ ret[1].tir_mensal # NaN /\ ret[1].tir_mensal[1] > 0
    /\ ret[1].tir_anual[1] > 0

\* C14, as stated: the total_investido handed to calcular_metricas_financeiras
\* (denominator of the ROE, outlay of the IRR series) and the total_saidas of
\* the self-check are capital_proprio_investido + total_prestacoes_pagas.
C14_TotalInvestidoComPrestacoes ==
    pc \in {"conferencia", "done"} =>
        LET total == FAdd(estrutura_capital.capital_proprio_investido,
                          custos_financ.total_prestacoes_pagas)
        IN  /\ total_investido = <<total>>
            /\ metricas.fluxo_caixa[1] = -total
            /\ pc = "done" => conferencia.total_saidas = total

\* C15: in every run the stages execute at most once each and only in the
\* order validation, Acquisition, Capital Structure, Loan Simulation, Sale
\* Profit, Return Metrics, never going back; a stage's result exists exactly
\* from the end of that stage on; a fatal validation stops the run before
\* Acquisition with no stage result and no metric; a successful validation
\* (with or without the advisory) is followed by all five stages, to the end.
C15_EstagiosEmOrdem ==
    /\ [][pc' # pc => <<pc, pc'>> \in Ordem]_vars
    /\ [](pc \in {"validar", "stopped"} =>
              /\ custos_aquisicao = Unbound /\ estrutura_capital = Unbound
              /\ custos_financ = Unbound /\ lucros = Unbound
              /\ total_investido = Unbound /\ metricas = Unbound)
    /\ [](pc = "stopped" => valido = <<FALSE>>)
    /\ [](pc \notin {"validar", "stopped"} => valido = <<TRUE>>)
    /\ [](pc = "aquisicao" => (custos_aquisicao = Unbound /\ estrutura_capital = Unbound))
    /\ [](pc = "estrutura" =>
              (custos_aquisicao.custo_total_ativo >= 0 /\ estrutura_capital = Unbound
               /\ custos_financ = Unbound))
    /\ [](pc = "financiamento" =>
              (estrutura_capital.valor_financiado >= 0 /\ custos_financ = Unbound
               /\ lucros = Unbound))
    /\ [](pc = "lucros" =>
              (custos_financ.saldo_devedor >= 0 /\ lucros = Unbound /\ metricas = Unbound))
    /\ [](pc = "metricas" =>
              (lucros.lucro_liquido <= lucros.lucro_bruto /\ metricas = Unbound))
    /\ [](pc \in {"conferencia", "done"} => Len(metricas.fluxo_caixa) = inputs.meses + 1)
    /\ (pc = "validar"
          /\ validar_inputs(inputs.lance, inputs.revenda, inputs.meses, inputs.entrada)[1])
           ~> (pc = "done")
    /\ (pc = "validar"
          /\ ~validar_inputs(inputs.lance, inputs.revenda, inputs.meses, inputs.entrada)[1])
           ~> [](pc = "stopped")

\* C15 happens: a run with the advisory went through the five stages
C15_CorridaCompletaComAdvertencia ==
    /\ pc = "done"
    /\ valido = <<TRUE>> /\ mensagem = MsgRevenda
    /\ Len(metricas.fluxo_caixa) = inputs.meses + 1

\* C16, as stated: for every input set and every down-payment fraction,
\* capital_proprio_investido + valor_financiado == custo_total_ativo; and
\* without financing capital_proprio_investido equals custo_total_ativo and
\* ROI equals ROE.
C16_CapitalMaisFinanciadoExato ==
    /\ pc \in {"financiamento", "lucros", "metricas", "conferencia", "done"} =>
           /\ FAdd(estrutura_capital.capital_proprio_investido,
                   estrutura_capital.valor_financiado)
                  = custos_aquisicao.custo_total_ativo
           /\ ~inputs.considerar_juros =>
                  estrutura_capital.capital_proprio_investido
                      = custos_aquisicao.custo_total_ativo
    /\ (pc \in {"conferencia", "done"} /\ ~inputs.considerar_juros) =>
           metricas.roi = metricas.roe

\* C16, amended: capital_proprio_investido + valor_financiado is
\* custo_total_ativo up to the rounding of the two sums and of the
\* subtraction, within four units in the last place of custo_total_ativo; with
\* a down payment of 100% the two are equal and valor_financiado is 0; without
\* financing capital_proprio_investido equals custo_total_ativo exactly,
\* total_investido equals it too, and ROI equals ROE.
C16_CapitalMaisFinanciadoArredondado ==
    /\ pc \in {"financiamento", "lucros", "metricas", "conferencia", "done"} =>
           /\ Abs(estrutura_capital.capital_proprio_investido
                      + estrutura_capital.valor_financiado
                      - custos_aquisicao.custo_total_ativo)
                  <= 4 * Ulp(custos_aquisicao.custo_total_ativo)
           /\ (~inputs.considerar_juros \/ inputs.entrada = 100) =>
                  /\ estrutura_capital.valor_financiado = 0
                  /\ estrutura_capital.capital_proprio_investido
                         = custos_aquisicao.custo_total_ativo
    /\ (pc \in {"conferencia", "done"} /\ ~inputs.considerar_juros) =>
           /\ total_investido = <<custos_aquisicao.custo_total_ativo>>
           /\ metricas.roi = metricas.roe

\* C16 happens: a financed purchase whose own capital and financed amount do
\* not add up to the total cost
C16_SomaDoCustoInexata ==
    /\ pc = "done"
    /\ inputs.considerar_juros
    /\ estrutura_capital.valor_financiado > 0
    /\ FAdd(estrutura_capital.capital_proprio_investido,
            estrutura_capital.valor_financiado)
           # custos_aquisicao.custo_total_ativo

\* C17: within one session, over any sequence of reruns and password
\* submissions, a run gets past the gate to the validation exactly when the
\* most recent submission was the expected password; before any submission
\* and after a wrong one the run stops at the gate; a correct submission
\* removes the typed password from the session state; and once a correct
\* submission was accepted it stays the most recent one, so every later run
\* passes.
C17_PortaoDeAcesso ==
    /\ [][(pc = "portao" /\ pc' # pc) =>
              /\ pc' \in {"validar", "barrado"}
              /\ (pc' = "validar") <=> (ultima_senha = <<SENHA>>)]_vars
    /\ [](pc \in {"validar", "aquisicao", "estrutura", "financiamento", "lucros",
                  "metricas", "conferencia", "done", "stopped"}
              => ultima_senha = <<SENHA>>)
    /\ [](pc = "barrado" => ultima_senha # <<SENHA>>)
    /\ [](ultima_senha = <<SENHA>> =>
              /\ "password" \notin DOMAIN session_state
              /\ session_state["password_correct"] = TRUE)
    /\ [][ultima_senha = <<SENHA>> => ultima_senha' = <<SENHA>>]_vars

\* C17 happens: the expected password was submitted, the typed text is gone
\* from the session state and a run went through the gate and the pipeline
C17_AceitaDepoisDeErrar ==
    /\ pc = "done"
    /\ ultima_senha = <<SENHA>>
    /\ session_state = [password_correct |-> TRUE]

\* C18: for every financed amount F > 0, rate >= 0, term N >= 1 and holding
\* time H >= 1, also with H > N, juros_pagos_no_giro is not negative and is at
\* most the interest of the whole loan, prestacao_mensal * N - F, and
\* total_prestacoes_pagas is at most prestacao_mensal * N.
C18_JurosLimitadosAoEmprestimo ==
    (ret # <<>> /\ call.considerar_juros /\ call.valor_financiado > 0) =>
        LET r == ret[1]
            total_do_emprestimo == FMulInt(r.prestacao_mensal, call.prazo_total_meses)
        IN  /\ r.juros_pagos_no_giro >= 0
            /\ r.juros_pagos_no_giro <= FSub(total_do_emprestimo, call.valor_financiado)
            /\ r.total_prestacoes_pagas <= total_do_emprestimo

====
